---- MODULE Spec2Model ----
(***************************************************************************)
(* Model of one_folder.py and two_folders.py: video clean-up, concurrent   *)
(* hashing of a directory's images into a hash -> path dict, the set       *)
(* algebra over the two dicts, and the concurrent copy of each partition.  *)
(***************************************************************************)
EXTENDS Integers, FiniteSets, Sequences, TLC

\* ------------------------------------------------------------------ bounds
\* Largest number of entries an input directory holds.
MaxFiles == 3

\* ------------------------------------------------------- files and contents
Empty == [x \in {} |-> x]

ImageNames == {[base |-> "a", ext |-> ".heic"], [base |-> "b", ext |-> ".jpg"],
               [base |-> "a", ext |-> ".PNG"]}
VideoNames == {[base |-> "a", ext |-> ".MP4"], [base |-> "a", ext |-> ".mov"],
               [base |-> "b", ext |-> ".mp4"]}
Names == ImageNames \cup VideoNames

\* Contents: an image decodes to pixels whose digest is h1, h2 or h3, or does
\* not decode at all (Bad).  A video file has content Vid.
Hashes == {"h1", "h2", "h3"}
Bad == "bad"
Vid == "vid"

\* str.lower() on the extensions that occur.
Lower(ext) ==
    CASE ext = ".MP4" -> ".mp4"
      [] ext = ".MOV" -> ".mov"
      [] ext = ".HEIC" -> ".heic"
      [] ext = ".JPG" -> ".jpg"
      [] ext = ".PNG" -> ".png"
      [] OTHER -> ext

\* The pixel contents the images of a folder are drawn from: A and B can share
\* h2, and each can hold a digest the other cannot.
Pixels(f) == IF f = "B" THEN {"h2", "h3"} ELSE {"h1", "h2"}

ContentsOf(f, n) == IF n \in ImageNames THEN Pixels(f) \cup {Bad} ELSE {Vid}

AllFolders == {"A", "B", "C"}

\* The directories a folder can start as: at most MaxFiles entries.
AllDirs ==
    UNION {[S -> Hashes \cup {Bad, Vid}] :
             S \in {T \in SUBSET Names : Cardinality(T) <= MaxFiles}}
\* The single folder C can hold all three image names; A and B, which are
\* explored in pairs, the first two.
NamesOf(f) == IF f = "C" THEN Names ELSE Names \ {[base |-> "a", ext |-> ".PNG"]}
Dirs == [f \in AllFolders |->
            {d \in AllDirs : /\ DOMAIN d \subseteq NamesOf(f)
                             /\ \A n \in DOMAIN d : d[n] \in ContentsOf(f, n)}]

\* one_folder.py works on ./C, two_folders.py on ./A then ./B.
Order(m) == IF m = "one" THEN <<"C">> ELSE <<"A", "B">>
Used(m) == {Order(m)[i] : i \in 1..Len(Order(m))}

Path(f, n) == [dir |-> f, name |-> n]

Remove(d, n) == [m \in DOMAIN d \ {n} |-> d[m]]

\* ---------------------------------------------------------------- variables
VARIABLES
    mode,         \* "one": one_folder.py, "two": two_folders.py
    present,      \* the input folders that exist
    input,        \* the folders' contents when the run starts
    fs,           \* the folders' contents now
    holding,      \* the videos/ holding directory: name -> path it came from
    deleted,      \* paths os.remove has deleted
    moved,        \* paths shutil.move has moved
    pc,           \* "start", "clean_up_videos", "process_images", "copy", "end"
    cur,          \* index in Order(mode) of the folder being worked on
    heic_files,   \* clean_up_videos: base names of the .heic entries
    todo,         \* clean_up_videos: entries of `files` the loop has not reached
    futs,         \* process_images: folder -> (name -> "pending"|"done"|"seen")
    image_hashes, \* process_images: folder -> (hash -> path)
    tasks,        \* the (label, dataset, target folder) triples to copy
    part,         \* index in tasks of the partition being copied
    copy,         \* partition -> (hash -> [src, state]) for the submitted copies
    dest,         \* target folder -> (file name -> content)
    exc,          \* "none", "raised" (propagating out of the with block), "exit"
    summary       \* what the end of the run prints

vars == <<mode, present, input, fs, holding, deleted, moved, pc, cur, heic_files,
          todo, futs, image_hashes, tasks, part, copy, dest, exc, summary>>

Targets == {"A-B", "B-A", "A_intersection_B", "A_union_B", "Unique"}

NoSummary == [printed |-> FALSE, error |-> FALSE, before |-> 0, after |-> 0, duplicates |-> 0]

Init ==
    /\ mode \in {"one", "two"}
    /\ present \in SUBSET Used(mode)
    /\ \E d \in [present -> UNION {Dirs[f] : f \in AllFolders}] :
          /\ \A f \in present : d[f] \in Dirs[f]
          /\ input = [f \in AllFolders |-> IF f \in present THEN d[f] ELSE Empty]
    /\ fs = input
    /\ holding = Empty
    /\ deleted = {}
    /\ moved = {}
    /\ pc = "start"
    /\ cur = 1
    /\ heic_files = {}
    /\ todo = {}
    /\ futs = [f \in AllFolders |-> Empty]
    /\ image_hashes = [f \in AllFolders |-> Empty]
    /\ tasks = <<>>
    /\ part = 0
    /\ copy = <<>>
    /\ dest = [t \in Targets |-> Empty]
    /\ exc = "none"
    /\ summary = NoSummary

Folder == Order(mode)[cur]

\* ------------------------------------------------------- clean_up_videos
\* line 17: the base names of the entries whose lowered name ends in .heic
HeicBases(d) == {n.base : n \in {m \in DOMAIN d : Lower(m.ext) = ".heic"}}

\* ShouldDelete with the .mov branch sharing the .mp4 branch's test
ShouldDeleteAnyVideo(n, heic) == Lower(n.ext) \in {".mp4", ".mov"} /\ n.base \in heic

\* lines 26-27: the entry is an .mp4 and a .heic of the same base name exists
ShouldDelete(n, heic) == Lower(n.ext) = ".mp4" /\ n.base \in heic

\* lines 26, 30, 34: an .mp4 with no .heic, or any .mov
ShouldMove(n, heic) ==
    \/ Lower(n.ext) = ".mp4" /\ n.base \notin heic
    \/ Lower(n.ext) # ".mp4" /\ Lower(n.ext) = ".mov"

\* __main__: the folders exist, clean_up_videos of the first folder begins
Start ==
    /\ pc = "start"
    /\ IF Used(mode) \subseteq present
       THEN /\ pc' = "clean_up_videos"
            /\ heic_files' = HeicBases(fs[Order(mode)[1]])
            /\ todo' = DOMAIN fs[Order(mode)[1]]
            /\ UNCHANGED summary
       ELSE /\ pc' = "end"
            /\ summary' = [NoSummary EXCEPT !.error = TRUE]
            /\ UNCHANGED <<heic_files, todo>>
    /\ UNCHANGED <<mode, present, input, fs, holding, deleted, moved, cur, futs,
                   image_hashes, tasks, part, copy, dest, exc>>

\* lines 26-29: os.remove(file_path) succeeds
CleanDelete(n) ==
    /\ pc = "clean_up_videos" /\ exc = "none"
    /\ n \in todo
    /\ ShouldDelete(n, heic_files)
    /\ fs' = [fs EXCEPT ![Folder] = Remove(@, n)]
    /\ deleted' = deleted \cup {Path(Folder, n)}
    /\ todo' = todo \ {n}
    /\ UNCHANGED <<mode, present, input, holding, moved, pc, cur, heic_files, futs,
                   image_hashes, tasks, part, copy, dest, exc, summary>>

\* lines 30-32 and 34-36: shutil.move(file_path, video_output_folder/name)
\* succeeds; an entry of that name already in the holding directory is replaced
CleanMove(n) ==
    /\ pc = "clean_up_videos" /\ exc = "none"
    /\ n \in todo
    /\ ShouldMove(n, heic_files)
    /\ fs' = [fs EXCEPT ![Folder] = Remove(@, n)]
    /\ holding' = (n :> Path(Folder, n)) @@ holding
    /\ moved' = moved \cup {Path(Folder, n)}
    /\ todo' = todo \ {n}
    /\ UNCHANGED <<mode, present, input, deleted, pc, cur, heic_files, futs,
                   image_hashes, tasks, part, copy, dest, exc, summary>>

\* lines 26, 34: the entry is neither an .mp4 nor a .mov, the loop goes on
CleanSkip(n) ==
    /\ pc = "clean_up_videos" /\ exc = "none"
    /\ n \in todo
    /\ ~ShouldDelete(n, heic_files) /\ ~ShouldMove(n, heic_files)
    /\ todo' = todo \ {n}
    /\ UNCHANGED <<mode, present, input, fs, holding, deleted, moved, pc, cur,
                   heic_files, futs, image_hashes, tasks, part, copy, dest, exc,
                   summary>>

\* lines 28, 31, 35: os.remove or shutil.move raises (permission denied, the file
\* is gone); nothing catches it, so the exception ends the program
CleanRaise(n) ==
    /\ pc = "clean_up_videos" /\ exc = "none"
    /\ n \in todo
    /\ ShouldDelete(n, heic_files) \/ ShouldMove(n, heic_files)
    /\ exc' = "exit"
    /\ UNCHANGED <<mode, present, input, fs, holding, deleted, moved, pc, cur,
                   heic_files, todo, futs, image_hashes, tasks, part, copy, dest,
                   summary>>

\* ---------------------------------------------------------- process_images
\* line 50: the entries whose lowered name ends in .heic, .jpg or .png
IsHashed(n) == Lower(n.ext) \in {".heic", ".jpg", ".png"}
Files(d) == {n \in DOMAIN d : IsHashed(n)}

\* line 53: one future per file, all submitted before any result is read
Submit(d) == [n \in Files(d) |-> "pending"]

\* clean_up_videos returns: two_folders.py cleans B after A; then process_images
\* of the first folder submits its futures
CleanReturn ==
    /\ pc = "clean_up_videos" /\ exc = "none"
    /\ todo = {}
    /\ IF cur < Len(Order(mode))
       THEN /\ cur' = cur + 1
            /\ heic_files' = HeicBases(fs[Order(mode)[cur + 1]])
            /\ todo' = DOMAIN fs[Order(mode)[cur + 1]]
            /\ UNCHANGED <<pc, futs>>
       ELSE /\ pc' = "process_images"
            /\ cur' = 1
            /\ futs' = [futs EXCEPT ![Order(mode)[1]] = Submit(fs[Order(mode)[1]])]
            /\ UNCHANGED <<heic_files, todo>>
    /\ UNCHANGED <<mode, present, input, fs, holding, deleted, moved, image_hashes,
                   tasks, part, copy, dest, exc, summary>>

\* lines 38-45: get_image_hash returns the digest of the pixels, or None when
\* anything raises
get_image_hash(content) == IF content \in Hashes THEN content ELSE "None"

\* Insert without the test for None
InsertUnchecked(hashes, h, path) == (h :> path) @@ hashes

\* Insert assigning a new dict instead of updating the shared one
InsertReplacing(hashes, h, path) ==
    IF h # "None" THEN (h :> path) ELSE hashes

\* lines 58-59: a result that is not None is stored under its hash
Insert(hashes, h, path) ==
    IF h # "None" THEN (h :> path) @@ hashes ELSE hashes

\* a worker thread finishes get_image_hash for one file
HashComplete(n) ==
    /\ pc = "process_images" /\ exc = "none"
    /\ n \in DOMAIN futs[Folder]
    /\ futs[Folder][n] = "pending"
    /\ futs' = [futs EXCEPT ![Folder][n] = "done"]
    /\ UNCHANGED <<mode, present, input, fs, holding, deleted, moved, pc, cur,
                   heic_files, todo, image_hashes, tasks, part, copy, dest, exc,
                   summary>>

\* lines 55-60: as_completed yields a finished future, the main thread stores
\* its result
HashAggregate(n) ==
    /\ pc = "process_images" /\ exc = "none"
    /\ n \in DOMAIN futs[Folder]
    /\ futs[Folder][n] = "done"
    /\ futs' = [futs EXCEPT ![Folder][n] = "seen"]
    /\ image_hashes' = [image_hashes EXCEPT ![Folder] =
                           Insert(@, get_image_hash(fs[Folder][n]), Path(Folder, n))]
    /\ UNCHANGED <<mode, present, input, fs, holding, deleted, moved, pc, cur,
                   heic_files, todo, tasks, part, copy, dest, exc, summary>>

\* BatchDone without waiting for the futures
BatchDoneNoWait(fm) == TRUE

\* line 55: as_completed is exhausted once every future was yielded
BatchDone(fm) == \A n \in DOMAIN fm : fm[n] = "seen"

\* --------------------------------------------------- compare_images_and_sort
\* two_folders.py lines 78-81
Intersection(a, b) == {h \in DOMAIN a : h \in DOMAIN b}
OnlyInA(a, b) == {h \in DOMAIN a : h \notin DOMAIN b}
\* OnlyInB with the "not" of its test dropped
OnlyInBNotDropped(a, b) == {h \in DOMAIN b : h \in DOMAIN a}
OnlyInB(a, b) == {h \in DOMAIN b : h \notin DOMAIN a}
UnionKeys(a, b) == DOMAIN a \cup DOMAIN b

\* MergeDicts with the two dicts unpacked in the other order
MergeDictsAWins(a, b) ==
    [h \in DOMAIN a \cup DOMAIN b |-> IF h \in DOMAIN a THEN a[h] ELSE b[h]]

\* two_folders.py line 98: {**images_a, **images_b}; a key of both takes the
\* value of the dict unpacked last
MergeDicts(a, b) ==
    [h \in DOMAIN a \cup DOMAIN b |-> IF h \in DOMAIN b THEN b[h] ELSE a[h]]

\* two_folders.py lines 94-99; one_folder.py lines 86-90 copy every value of
\* images_c into Unique
Tasks(m, ih) ==
    IF m = "one"
    THEN <<[label |-> DOMAIN ih["C"], dataset |-> ih["C"], target |-> "Unique"]>>
    ELSE <<[label |-> OnlyInA(ih["A"], ih["B"]), dataset |-> ih["A"], target |-> "A-B"],
           [label |-> OnlyInB(ih["A"], ih["B"]), dataset |-> ih["B"], target |-> "B-A"],
           [label |-> Intersection(ih["A"], ih["B"]), dataset |-> ih["A"],
            target |-> "A_intersection_B"],
           [label |-> UnionKeys(ih["A"], ih["B"]),
            dataset |-> MergeDicts(ih["A"], ih["B"]), target |-> "A_union_B"]>>

\* two_folders.py line 103, one_folder.py line 90: one copy_image future per
\* hash of the label, reading its source path from the dataset
SubmitCopies(t) == [h \in t.label |-> [src |-> t.dataset[h], state |-> "pending"]]

\* process_images returns: two_folders.py hashes B after A; then the partitions
\* are computed and the copies of the first one are submitted
HashReturn ==
    /\ pc = "process_images" /\ exc = "none"
    /\ BatchDone(futs[Folder])
    /\ IF cur < Len(Order(mode))
       THEN /\ cur' = cur + 1
            /\ futs' = [futs EXCEPT ![Order(mode)[cur + 1]] =
                            Submit(fs[Order(mode)[cur + 1]])]
            /\ UNCHANGED <<pc, tasks, part, copy>>
       ELSE /\ pc' = "copy"
            /\ tasks' = Tasks(mode, image_hashes)
            /\ part' = 1
            /\ copy' = [i \in 1..Len(Tasks(mode, image_hashes)) |->
                          IF i = 1 THEN SubmitCopies(Tasks(mode, image_hashes)[1])
                          ELSE Empty]
            /\ UNCHANGED <<cur, futs>>
    /\ UNCHANGED <<mode, present, input, fs, holding, deleted, moved, heic_files,
                   todo, image_hashes, dest, exc, summary>>

\* ------------------------------------------------------------- copy_image
\* lines 66-67: shutil.copy2 writes the source's content under its base name.
\* Copies of one partition run concurrently: a copy onto a name another copy of
\* the partition wrote leaves either its own content or a torn file.
Written(d, src, content) ==
    IF src.name \in DOMAIN d THEN {content, Bad} ELSE {content}

CopyRun(h) ==
    /\ pc = "copy" /\ exc \in {"none", "raised"}
    /\ h \in DOMAIN copy[part]
    /\ copy[part][h].state = "pending"
    /\ LET src == copy[part][h].src
           t == tasks[part].target
       IN \E c \in Written(dest[t], src, fs[src.dir][src.name]) :
             dest' = [dest EXCEPT ![t] = (src.name :> c) @@ @]
    /\ copy' = [copy EXCEPT ![part][h].state = "ok"]
    /\ UNCHANGED <<mode, present, input, fs, holding, deleted, moved, pc, cur,
                   heic_files, todo, futs, image_hashes, tasks, part, exc, summary>>

\* line 67: shutil.copy2 raises; the future holds the exception
CopyFail(h) ==
    /\ pc = "copy" /\ exc \in {"none", "raised"}
    /\ h \in DOMAIN copy[part]
    /\ copy[part][h].state = "pending"
    /\ copy' = [copy EXCEPT ![part][h].state = "failed"]
    /\ UNCHANGED <<mode, present, input, fs, holding, deleted, moved, pc, cur,
                   heic_files, todo, futs, image_hashes, tasks, part, dest, exc,
                   summary>>

\* two_folders.py line 105, one_folder.py line 93: future.result() of a failed
\* future raises in the main thread, out of the loops and the with block
CopyResultRaises(h) ==
    /\ pc = "copy" /\ exc = "none"
    /\ h \in DOMAIN copy[part]
    /\ copy[part][h].state = "failed"
    /\ exc' = "raised"
    /\ UNCHANGED <<mode, present, input, fs, holding, deleted, moved, pc, cur,
                   heic_files, todo, futs, image_hashes, tasks, part, copy, dest,
                   summary>>

\* the with block's exit waits for the futures already submitted, then the
\* exception ends the program
CopyUnwind ==
    /\ pc = "copy" /\ exc = "raised"
    /\ \A h \in DOMAIN copy[part] : copy[part][h].state # "pending"
    /\ exc' = "exit"
    /\ UNCHANGED <<mode, present, input, fs, holding, deleted, moved, pc, cur,
                   heic_files, todo, futs, image_hashes, tasks, part, copy, dest,
                   summary>>

\* one_folder.py lines 74-76, 87, 96-99
Summary(total_files_before, images_c) ==
    [printed |-> TRUE, error |-> FALSE,
     before |-> total_files_before,
     after |-> Cardinality(DOMAIN images_c),
     duplicates |-> total_files_before - Cardinality(DOMAIN images_c)]

\* every result() of the partition returned: the next partition is submitted,
\* or the with block ends and the completion message is printed
CopyNext ==
    /\ pc = "copy" /\ exc = "none"
    /\ \A h \in DOMAIN copy[part] : copy[part][h].state = "ok"
    /\ IF part < Len(tasks)
       THEN /\ part' = part + 1
            /\ copy' = [copy EXCEPT ![part + 1] = SubmitCopies(tasks[part + 1])]
            /\ UNCHANGED <<pc, summary>>
       ELSE /\ pc' = "end"
            /\ summary' = IF mode = "one"
                          THEN Summary(Cardinality(DOMAIN futs["C"]), image_hashes["C"])
                          ELSE [NoSummary EXCEPT !.printed = TRUE]
            /\ UNCHANGED <<part, copy>>
    /\ UNCHANGED <<mode, present, input, fs, holding, deleted, moved, cur,
                   heic_files, todo, futs, image_hashes, tasks, dest, exc>>

Next ==
    \/ Start
    \/ \E n \in Names : CleanDelete(n)
    \/ \E n \in Names : CleanMove(n)
    \/ \E n \in Names : CleanSkip(n)
    \/ \E n \in Names : CleanRaise(n)
    \/ CleanReturn
    \/ \E n \in Names : HashComplete(n)
    \/ \E n \in Names : HashAggregate(n)
    \/ HashReturn
    \/ \E h \in Hashes : CopyRun(h)
    \/ \E h \in Hashes : CopyFail(h)
    \/ \E h \in Hashes : CopyResultRaises(h)
    \/ CopyUnwind
    \/ CopyNext

Spec == Init /\ [][Next]_vars

\* ------------------------------------------------------- what has returned
Idx(f) == CHOOSE i \in 1..Len(Order(mode)) : Order(mode)[i] = f
Completed == pc = "end" /\ summary.printed
Terminated == pc = "end" \/ exc = "exit"

\* clean_up_videos(f, ...) has returned
CleanReturned(f) ==
    /\ f \in Used(mode)
    /\ \/ pc \in {"process_images", "copy"}
       \/ Completed
       \/ pc = "clean_up_videos" /\ Idx(f) < cur

\* process_images(f) has returned
HashReturned(f) ==
    /\ f \in Used(mode)
    /\ \/ pc = "copy"
       \/ Completed
       \/ pc = "process_images" /\ Idx(f) < cur

IsVideo(n) == Lower(n.ext) \in {".mp4", ".mov"}

\* The keys process_images returns for a directory: the digests of its hashed
\* entries that decode.
Fingerprints(d) == {get_image_hash(d[n]) : n \in Files(d)} \ {"None"}

\* ----------------------------------------------------------------- C1
\* C1 as stated: for every fingerprint that is a key of both A's and B's dict,
\* the file copied into A_union_B is A's path for it.
C1_UnionPrefersA ==
    (mode = "two" /\ Len(copy) = 4) =>
        \A h \in DOMAIN copy[4] :
            (h \in DOMAIN image_hashes["A"] /\ h \in DOMAIN image_hashes["B"]) =>
                copy[4][h].src = image_hashes["A"][h]

\* C1 amended: for every fingerprint that is a key of both dicts, the file
\* copied into A_union_B is B's path for it (the dict unpacked last wins);
\* a fingerprint of one dict alone is copied from that dict's path.
C1_UnionPrefersB ==
    (mode = "two" /\ Len(copy) = 4) =>
        \A h \in DOMAIN copy[4] :
            /\ h \in DOMAIN image_hashes["B"] => copy[4][h].src = image_hashes["B"][h]
            /\ h \notin DOMAIN image_hashes["B"] => copy[4][h].src = image_hashes["A"][h]

C1_Witness ==
    /\ mode = "two" /\ Len(copy) = 4
    /\ \E h \in DOMAIN copy[4] :
          /\ h \in DOMAIN image_hashes["A"] /\ h \in DOMAIN image_hashes["B"]
          /\ copy[4][h].state = "ok"
          /\ dest["A_union_B"][copy[4][h].src.name] = h

\* ----------------------------------------------------------------- C2
ImageBases(d) ==
    {n.base : n \in {m \in DOMAIN d : Lower(m.ext) \in {".heic", ".jpg", ".jpeg", ".png"}}}

\* C2 as stated: once clean_up_videos has returned for a folder, every video
\* (.mp4 or .mov) whose base name is that of some image (.heic, .jpg, .jpeg,
\* .png) of the folder has been deleted, and every other video has been moved
\* to the holding directory and not deleted.
C2_AnyImageDeletesAnyVideo ==
    \A f \in AllFolders : CleanReturned(f) =>
        \A n \in DOMAIN input[f] : IsVideo(n) =>
            IF n.base \in ImageBases(input[f])
            THEN Path(f, n) \in deleted /\ Path(f, n) \notin moved
            ELSE Path(f, n) \in moved /\ Path(f, n) \notin deleted

\* C2 amended: once clean_up_videos has returned for a folder, every .mp4
\* (extension compared case-insensitively) whose base name is that of some
\* .heic entry of the folder has been deleted, and every other video (an .mp4
\* with no such .heic, and every .mov) has been moved to the holding directory
\* and not deleted; the .heic base names are those of the folder before any
\* video was processed.  No video processed before a failure was treated
\* otherwise.
C2_HeicDeletesMp4 ==
    /\ \A f \in AllFolders : CleanReturned(f) =>
          \A n \in DOMAIN input[f] : IsVideo(n) =>
             /\ n \notin DOMAIN fs[f]
             /\ IF Lower(n.ext) = ".mp4" /\ n.base \in HeicBases(input[f])
                THEN Path(f, n) \in deleted /\ Path(f, n) \notin moved
                ELSE /\ Path(f, n) \in moved /\ Path(f, n) \notin deleted
                     /\ n \in DOMAIN holding
    /\ \A p \in deleted :
          Lower(p.name.ext) = ".mp4" /\ p.name.base \in HeicBases(input[p.dir])
    /\ \A p \in moved :
          /\ IsVideo(p.name)
          /\ ~(Lower(p.name.ext) = ".mp4" /\ p.name.base \in HeicBases(input[p.dir]))

C2_Witness ==
    \E f \in AllFolders :
        /\ CleanReturned(f)
        /\ \E p \in deleted : p.dir = f
        /\ \E p \in moved : p.dir = f /\ p.name.base \in HeicBases(input[f])

\* ----------------------------------------------------------------- C3
\* C3: the four fingerprint sets compare_images_and_sort computes satisfy:
\* only_in_a and only_in_b are disjoint; intersection, only_in_a and only_in_b
\* together are the union; |union| = |keys(A)| + |keys(B)| - |intersection|.
C3_PartitionAlgebra ==
    (mode = "two" /\ Len(tasks) = 4) =>
        LET only_in_a == tasks[1].label
            only_in_b == tasks[2].label
            intersection == tasks[3].label
            union == tasks[4].label
        IN /\ only_in_a \cap only_in_b = {}
           /\ intersection \cup only_in_a \cup only_in_b = union
           /\ Cardinality(union) =
                 Cardinality(DOMAIN image_hashes["A"]) + Cardinality(DOMAIN image_hashes["B"])
                 - Cardinality(intersection)

C3_Witness ==
    /\ mode = "two" /\ Len(tasks) = 4
    /\ tasks[1].label # {} /\ tasks[2].label # {} /\ tasks[3].label # {}

\* ----------------------------------------------------------------- C4
Decoded(d) == {n \in Files(d) : get_image_hash(d[n]) # "None"}

\* C4 as stated: the number of duplicates the single-folder summary reports is
\* the number of images that decoded minus the number of distinct
\* fingerprints, so an image that failed to decode is never counted as a
\* removed duplicate.
C4_DuplicatesExcludeDecodeFailures ==
    (mode = "one" /\ Completed) =>
        summary.duplicates =
            Cardinality(Decoded(fs["C"])) - Cardinality(Fingerprints(fs["C"]))

\* ----------------------------------------------------------------- C5
\* C5 as stated: when a copy has failed, the run still attempts every copy of
\* every partition and reaches its completion message.
C5_CopyFailureDoesNotAbort ==
    (Terminated /\ \E i \in 1..Len(copy) : \E h \in DOMAIN copy[i] :
                      copy[i][h].state = "failed") =>
        /\ Completed
        /\ \A i \in 1..Len(tasks) : \A h \in tasks[i].label :
              h \in DOMAIN copy[i] /\ copy[i][h].state # "pending"

\* ----------------------------------------------------------------- C6
\* C6 as stated: when deleting or moving a video has failed, every other video
\* of the folder is still processed and the hashing stage still runs.
C6_VideoFailureDoesNotAbort ==
    (Terminated /\ pc = "clean_up_videos") =>
        /\ Cardinality({n \in todo : IsVideo(n)}) <= 1
        /\ \A f \in Used(mode) : HashReturned(f)

\* ----------------------------------------------------------------- C7
\* C7 as stated: after a run in which every copy succeeded, hashing the
\* directory a partition was copied into gives exactly the partition's
\* fingerprints, for every partition.
C7_RoundTrip ==
    Completed =>
        \A i \in 1..Len(tasks) : Fingerprints(dest[tasks[i].target]) = tasks[i].label

\* ----------------------------------------------------------------- C8
\* C8: the dict process_images returns has at most as many keys as files were
\* considered, and as many exactly when every file decodes and no two files
\* share a fingerprint.
C8_IndexSize ==
    \A f \in AllFolders : HashReturned(f) =>
        LET keys == Cardinality(DOMAIN image_hashes[f])
            files == DOMAIN futs[f]
        IN /\ keys <= Cardinality(files)
           /\ keys = Cardinality(files) <=>
                 /\ \A n \in files : fs[f][n] \in Hashes
                 /\ \A n, m \in files : fs[f][n] = fs[f][m] => n = m

C8_Witness ==
    /\ HashReturned("A") /\ HashReturned("B")
    /\ Cardinality(DOMAIN futs["A"]) = 2 /\ Cardinality(DOMAIN image_hashes["A"]) = 1
    /\ \A n \in DOMAIN futs["A"] : fs["A"][n] \in Hashes
    /\ Cardinality(DOMAIN futs["B"]) = 2 /\ Cardinality(DOMAIN image_hashes["B"]) = 2

\* ----------------------------------------------------------------- C9
\* C9: whatever order the hashing tasks complete and are collected in, the
\* keys of the dict process_images returns are the fingerprints of the files
\* that decode, and each key maps to a file of the folder with that
\* fingerprint.
C9_KeysAreTheDecodedFingerprints ==
    \A f \in AllFolders : HashReturned(f) =>
        /\ DOMAIN image_hashes[f] = Fingerprints(fs[f])
        /\ \A h \in DOMAIN image_hashes[f] :
              /\ image_hashes[f][h].dir = f
              /\ image_hashes[f][h].name \in Files(fs[f])
              /\ fs[f][image_hashes[f][h].name] = h

\* three files hashed, two of one fingerprint, and of these the one collected
\* last is the .heic
C9_Witness ==
    /\ HashReturned("C")
    /\ Cardinality(DOMAIN futs["C"]) = 3
    /\ \E n, m \in DOMAIN futs["C"] :
          /\ n # m /\ fs["C"][n] = fs["C"][m] /\ fs["C"][n] \in Hashes
          /\ image_hashes["C"][fs["C"][n]].name.ext = ".heic"

\* ----------------------------------------------------------------- C10
VideosLeft(f) == {n \in DOMAIN fs[f] : IsVideo(n)}
AllCollected(f) == \A n \in DOMAIN futs[f] : futs[f][n] = "seen"

StagesInOrder ==
    \* no copy is submitted before every hashing task of every folder was collected
    /\ (\E i \in 1..Len(copy) : DOMAIN copy[i] # {}) =>
          \A f \in Used(mode) : DOMAIN futs[f] = Files(fs[f]) /\ AllCollected(f)
    \* no hashing task of B is submitted before every one of A was collected
    /\ DOMAIN futs["B"] # {} => AllCollected("A")
    \* no hashing task is submitted before every folder's videos were processed
    /\ (\E f \in AllFolders : DOMAIN futs[f] # {}) =>
          pc # "clean_up_videos" /\ \A f \in Used(mode) : VideosLeft(f) = {}

\* a dict changes only in a step of the process_images call that builds it
WrittenInOwnPhase ==
    \A f \in AllFolders :
        image_hashes'[f] # image_hashes[f] =>
            pc = "process_images" /\ pc' = "process_images" /\ Folder = f /\ cur' = cur

\* C10: stages never overlap: copies start after all hashing, B's hashing
\* after A's, hashing after the video clean-up of every folder; each dict is
\* written only during its own process_images call.
C10_StagesNeverOverlap == []StagesInOrder /\ [][WrittenInOwnPhase]_vars

C10_Witness ==
    /\ mode = "two" /\ pc = "copy"
    /\ DOMAIN futs["A"] # {} /\ DOMAIN futs["B"] # {}
    /\ deleted # {}
    /\ \E i \in 1..Len(copy) : \E h \in DOMAIN copy[i] : copy[i][h].state = "ok"
====
